---- MODULE Spec2Model ----
(***************************************************************************)
(* CSVWriter.h of DRAMSim2: the CSVWriter class (a two-phase CSV row       *)
(* writer over an ostream) and the indexStr name builders.                 *)
(*                                                                         *)
(* Text is modelled as a sequence of one-character strings, so that the    *)
(* sink holds exactly the characters the code writes.                      *)
(***************************************************************************)
EXTENDS Integers, Sequences, FiniteSets, TLC

\* ---------------------------------------------------------------- bounds
\* at most this many field names are captured
MaxFields == 2
\* at most this many values are written to the sink in total
MaxValues == 3
\* at most this many finalize() calls
MaxFinalize == 3
\* at most this many calls after the first call that departs from the usage
\* scenarios
MaxStray == 1
\* the longest base name handed to indexStr
MaxBaseLen == 66

\* ------------------------------------------------------- program constants
MAX_TMP_STR == 64
SINGLE_INDEX_LEN == 4

\* ------------------------------------------------------------------ text
Min(a, b) == IF a < b THEN a ELSE b

DigitChars == <<"0", "1", "2", "3", "4", "5", "6", "7", "8", "9">>

\* unsigned decimal rendering (printf %u, ostream << unsigned)
RECURSIVE DecStr(_)
DecStr(n) ==
    IF n < 10 THEN <<DigitChars[n + 1]>>
    ELSE DecStr(n \div 10) \o <<DigitChars[(n % 10) + 1]>>

\* signed decimal rendering (ostream << int, long)
SignedStr(n) == IF n < 0 THEN <<"-">> \o DecStr(-n) ELSE DecStr(n)

\* ostream << double / float in the stream's default format (%g, precision 6)
\* for a value given in tenths with magnitude below 10^5: the integer part,
\* then "." and one digit unless the fraction is zero.
FloatStr(t) ==
    LET a == IF t < 0 THEN -t ELSE t
        sign == IF t < 0 THEN <<"-">> ELSE <<>>
    IN  sign \o DecStr(a \div 10) \o
        (IF a % 10 = 0 THEN <<>> ELSE <<".", DigitChars[(a % 10) + 1]>>)

\* the text "output << value" writes for each ADD_TYPE overload
Render(v) ==
    CASE v.type \in {"unsigned", "uint64_t"} -> DecStr(v.n)
      [] v.type \in {"int", "long"}          -> SignedStr(v.n)
      [] v.type \in {"float", "double"}      -> FloatStr(v.n)

\* ---------------------------------------------------------------- inputs
Bandwidth == <<"B", "a", "n", "d", "w", "i", "d", "t", "h">>
Latency == <<"L", "a", "t", "e", "n", "c", "y">>
\* a name that holds a line terminator (names are arbitrary C strings)
TwoLines == <<"a", "\n", "b">>
Names == {Bandwidth, Latency, TwoLines}

\* base names for indexStr: the names of the usage example, and names of every
\* length up to MaxBaseLen
BaseOfLen(n) == [i \in 1..n |-> "a"]
BaseNames == {Bandwidth, Latency} \cup {BaseOfLen(n) : n \in 0..MaxBaseLen}
\* unsigned index values of one, two, three and ten decimal digits
IndexValues == {0, 9, 10, 99, 100, 2147483647}

IntV(n) == [type |-> "int", n |-> n]
\* a double given in tenths: DblV(15) is 1.5
DblV(t) == [type |-> "double", n |-> t]
\* values inserted by an arbitrary caller: 1.5, 15, 2.0
Values == {DblV(15), IntV(15), DblV(20)}
\* values inserted by the usage scenarios: 0.5, 5, 1.5, 15, 2.5, 25
UsageValues == {DblV(5), IntV(5), DblV(15), IntV(15), DblV(25), IntV(25)}

\* ----------------------------------------------------------------- state
VARIABLES
    output,      \* the characters written to the ostream so far
    flushed,     \* how many of them have been flushed
    fieldNames,  \* vector<string> fieldNames
    finalized,   \* bool finalized
    idx,         \* unsigned idx
    stdoutLog,   \* the warnings printf has printed, as (fields=, values=) pairs
    \* history of the calls made on the writer
    lastOp,      \* kind of the last call: "none", "name", "value", "finalize"
    nfin,        \* number of finalize() calls so far
    nvals,       \* number of values written to the sink so far
    namesIn,     \* names inserted before the first finalize(), in order
    rowIn,       \* values inserted since the last finalize() (after the first)
    mark,        \* Len(output) at the last finalize()
    filtered,    \* a second writer, given the same calls without the value
                 \* insertions before the first finalize() and the name
                 \* insertions after it
    scen7,       \* progress along the usage scenario of names-then-values
    scen8,       \* progress along the usage scenario of the class comment
    strays,      \* calls made after the calls departed from both scenarios
    \* one indexStr call
    ixBase,      \* its baseName
    ixIndices,   \* its indices (channel, rank, bank), one to three of them
    ixStatus,    \* "idle", "called", "returned", "aborted" (abort()) or
                 \* "exited" (exit(-1))
    ixRet,       \* the string it returned
    errLog       \* number of messages ERROR has reported

writerVars == <<output, flushed, fieldNames, finalized, idx, stdoutLog>>
histVars == <<lastOp, nfin, nvals, namesIn, rowIn, mark, filtered, scen7, scen8>>
ixVars == <<ixBase, ixIndices, ixStatus, ixRet, errLog>>
vars == <<writerVars, histVars, strays, ixVars>>

\* ------------------------------------------------------------- scenarios
OpName(s) == [op |-> "name", arg |-> s]
OpValue(v) == [op |-> "value", arg |-> v]
OpFinalize == [op |-> "finalize", arg |-> <<>>]

\* names, finalize, then two rows of values
Script7 ==
    <<OpName(Bandwidth), OpName(Latency), OpFinalize,
      OpValue(DblV(15)), OpValue(IntV(15)), OpFinalize,
      OpValue(DblV(25)), OpValue(IntV(25)), OpFinalize>>

\* the example usage of the class comment: (name, value) pairs every cycle
Script8 ==
    <<OpName(Bandwidth), OpValue(DblV(5)), OpName(Latency), OpValue(IntV(5)),
      OpFinalize,
      OpName(Bandwidth), OpValue(DblV(15)), OpName(Latency), OpValue(IntV(15)),
      OpFinalize,
      OpName(Bandwidth), OpValue(DblV(25)), OpName(Latency), OpValue(IntV(25)),
      OpFinalize>>

\* position in script after call o, -1 once the calls have left the script
Advance(script, pos, o) ==
    IF pos >= 0 /\ pos < Len(script) /\ script[pos + 1] = o
    THEN pos + 1 ELSE -1

Track(o) ==
    /\ scen7' = Advance(Script7, scen7, o)
    /\ scen8' = Advance(Script8, scen8, o)

\* ------------------------------------------------------------------ Init
\* CSVWriter(ostream &_output) : output(_output), finalized(false), idx(0)
WriterInit ==
    /\ output = <<>>
    /\ flushed = 0
    /\ fieldNames = <<>>
    /\ finalized = FALSE
    /\ idx = 0
    /\ stdoutLog = <<>>
    /\ lastOp = "none"
    /\ nfin = 0
    /\ nvals = 0
    /\ namesIn = <<>>
    /\ rowIn = <<>>
    /\ mark = 0
    /\ filtered = [output |-> <<>>, fieldNames |-> <<>>, finalized |-> FALSE,
                   idx |-> 0]
    /\ scen7 = 0
    /\ scen8 = 0
    /\ strays = 0

\* no indexStr call is under way
Init ==
    /\ WriterInit
    /\ ixBase = <<>>
    /\ ixIndices = <<>>
    /\ ixStatus = "idle"
    /\ ixRet = <<>>
    /\ errLog = 0

\* --------------------------------------------------------------- actions
\* HeaderText with the comma written between names instead of after each
RECURSIVE HeaderText_Between(_, _)
HeaderText_Between(names, i) ==
    IF i > Len(names) THEN <<>>
    ELSE names[i] \o (IF i < Len(names) THEN <<",">> ELSE <<>>)
         \o HeaderText_Between(names, i + 1)

\* for (i = 0; i < fieldNames.size(); i++) output << fieldNames[i] << ",";
RECURSIVE HeaderText(_, _)
HeaderText(names, i) ==
    IF i > Len(names) THEN <<>>
    ELSE names[i] \o <<",">> \o HeaderText(names, i + 1)

\* FinalizeBody without "finalized=true"
FinalizeBody_NoCommit ==
    IF ~finalized
    THEN /\ output' = output \o HeaderText(fieldNames, 1) \o <<"\n">>
         /\ flushed' = Len(output')
         /\ UNCHANGED <<fieldNames, finalized, idx, stdoutLog>>
    ELSE /\ stdoutLog' =
              IF idx < Len(fieldNames)
              THEN Append(stdoutLog, [fields |-> idx, values |-> Len(fieldNames)])
              ELSE stdoutLog
         /\ idx' = 0
         /\ output' = output \o <<"\n">>
         /\ flushed' = Len(output')
         /\ UNCHANGED <<fieldNames, finalized>>

\* FinalizeBody with the count test "idx <= fieldNames.size()"
FinalizeBody_WarnLeq ==
    IF ~finalized
    THEN /\ output' = output \o HeaderText(fieldNames, 1) \o <<"\n">>
         /\ flushed' = Len(output')
         /\ finalized' = TRUE
         /\ UNCHANGED <<fieldNames, idx, stdoutLog>>
    ELSE /\ stdoutLog' =
              IF idx <= Len(fieldNames)
              THEN Append(stdoutLog, [fields |-> idx, values |-> Len(fieldNames)])
              ELSE stdoutLog
         /\ idx' = 0
         /\ output' = output \o <<"\n">>
         /\ flushed' = Len(output')
         /\ UNCHANGED <<fieldNames, finalized>>

\* FinalizeBody without "idx=0"
FinalizeBody_NoReset ==
    IF ~finalized
    THEN /\ output' = output \o HeaderText(fieldNames, 1) \o <<"\n">>
         /\ flushed' = Len(output')
         /\ finalized' = TRUE
         /\ UNCHANGED <<fieldNames, idx, stdoutLog>>
    ELSE /\ stdoutLog' =
              IF idx < Len(fieldNames)
              THEN Append(stdoutLog, [fields |-> idx, values |-> Len(fieldNames)])
              ELSE stdoutLog
         /\ output' = output \o <<"\n">>
         /\ flushed' = Len(output')
         /\ UNCHANGED <<fieldNames, finalized, idx>>

\* FinalizeBody with the row closed by "\n" instead of std::endl
FinalizeBody_NoFlush ==
    IF ~finalized
    THEN /\ output' = output \o HeaderText(fieldNames, 1) \o <<"\n">>
         /\ flushed' = Len(output')
         /\ finalized' = TRUE
         /\ UNCHANGED <<fieldNames, idx, stdoutLog>>
    ELSE /\ stdoutLog' =
              IF idx < Len(fieldNames)
              THEN Append(stdoutLog, [fields |-> idx, values |-> Len(fieldNames)])
              ELSE stdoutLog
         /\ idx' = 0
         /\ output' = output \o <<"\n">>
         /\ UNCHANGED <<flushed, fieldNames, finalized>>

\* FinalizeBody that ends the line only of a row that has values
FinalizeBody_SkipEmptyRow ==
    IF ~finalized
    THEN /\ output' = output \o HeaderText(fieldNames, 1) \o <<"\n">>
         /\ flushed' = Len(output')
         /\ finalized' = TRUE
         /\ UNCHANGED <<fieldNames, idx, stdoutLog>>
    ELSE /\ stdoutLog' =
              IF idx < Len(fieldNames)
              THEN Append(stdoutLog, [fields |-> idx, values |-> Len(fieldNames)])
              ELSE stdoutLog
         /\ idx' = 0
         /\ output' = IF idx = 0 THEN output ELSE output \o <<"\n">>
         /\ flushed' = Len(output')
         /\ UNCHANGED <<fieldNames, finalized>>

\* the writer's part of finalize()
FinalizeBody ==
    IF ~finalized
    THEN /\ output' = output \o HeaderText(fieldNames, 1) \o <<"\n">>
         /\ flushed' = Len(output')
         /\ finalized' = TRUE
         /\ UNCHANGED <<fieldNames, idx, stdoutLog>>
    ELSE /\ stdoutLog' =
              IF idx < Len(fieldNames)
              THEN Append(stdoutLog, [fields |-> idx, values |-> Len(fieldNames)])
              ELSE stdoutLog
         /\ idx' = 0
         /\ output' = output \o <<"\n">>
         /\ flushed' = Len(output')
         /\ UNCHANGED <<fieldNames, finalized>>

\* finalize() on a writer w other than the one under test
FinalizeOn(w) ==
    IF ~w.finalized
    THEN [w EXCEPT !.output = @ \o HeaderText(w.fieldNames, 1) \o <<"\n">>,
                   !.finalized = TRUE]
    ELSE [w EXCEPT !.idx = 0, !.output = @ \o <<"\n">>]

\* void finalize()
Finalize ==
    /\ FinalizeBody
    /\ filtered' = FinalizeOn(filtered)
    /\ lastOp' = "finalize"
    /\ nfin' = nfin + 1
    /\ mark' = Len(output')
    /\ rowIn' = <<>>
    /\ UNCHANGED <<nvals, namesIn>>
    /\ Track(OpFinalize)
    /\ UNCHANGED ixVars

\* InsertNameBody without the "if (!finalized)" test
InsertNameBody_Unguarded(name) ==
    /\ fieldNames' = Append(fieldNames, name)
    /\ UNCHANGED <<output, flushed, finalized, idx, stdoutLog>>

\* the writer's part of operator<<(name), the same in both overloads
InsertNameBody(name) ==
    /\ fieldNames' = IF ~finalized THEN Append(fieldNames, name) ELSE fieldNames
    /\ UNCHANGED <<output, flushed, finalized, idx, stdoutLog>>

\* operator<<(name) on a writer w other than the one under test
InsertNameOn(w, name) ==
    IF ~w.finalized THEN [w EXCEPT !.fieldNames = Append(@, name)] ELSE w

NameHistory(name) ==
    /\ lastOp' = "name"
    /\ filtered' = IF nfin = 0 THEN InsertNameOn(filtered, name) ELSE filtered
    /\ namesIn' = IF nfin = 0 THEN Append(namesIn, name) ELSE namesIn
    /\ UNCHANGED <<nfin, nvals, rowIn, mark>>
    /\ Track(OpName(name))

\* CSVWriter &operator<<(const char *name)
InsertNameCStr(name) ==
    /\ InsertNameBody(name)
    /\ NameHistory(name)
    /\ UNCHANGED ixVars

\* CSVWriter &operator<<(const string &name)
InsertNameString(name) ==
    /\ InsertNameBody(name)
    /\ NameHistory(name)
    /\ UNCHANGED ixVars

\* InsertValueBody with the comma written before the value
InsertValueBody_CommaFirst(v) ==
    IF finalized
    THEN /\ output' = output \o <<",">> \o Render(v)
         /\ idx' = idx + 1
         /\ UNCHANGED <<flushed, fieldNames, finalized, stdoutLog>>
    ELSE UNCHANGED writerVars

\* InsertValueBody without the "if (finalized)" test
InsertValueBody_Unguarded(v) ==
    /\ output' = output \o Render(v) \o <<",">>
    /\ idx' = idx + 1
    /\ UNCHANGED <<flushed, fieldNames, finalized, stdoutLog>>

\* InsertValueBody with "idx++" after the if block
InsertValueBody_CountAlways(v) ==
    IF finalized
    THEN /\ output' = output \o Render(v) \o <<",">>
         /\ idx' = idx + 1
         /\ UNCHANGED <<flushed, fieldNames, finalized, stdoutLog>>
    ELSE /\ idx' = idx + 1
         /\ UNCHANGED <<output, flushed, fieldNames, finalized, stdoutLog>>

\* the writer's part of ADD_TYPE(T)'s operator<<(T value)
InsertValueBody(v) ==
    IF finalized
    THEN /\ output' = output \o Render(v) \o <<",">>
         /\ idx' = idx + 1
         /\ UNCHANGED <<flushed, fieldNames, finalized, stdoutLog>>
    ELSE UNCHANGED writerVars

\* operator<<(T value) on a writer w other than the one under test
InsertValueOn(w, v) ==
    IF w.finalized
    THEN [w EXCEPT !.output = @ \o Render(v) \o <<",">>, !.idx = @ + 1]
    ELSE w

\* CSVWriter &operator<<(T value), T one of the ADD_TYPE types
InsertValue(v) ==
    /\ InsertValueBody(v)
    /\ filtered' = IF nfin > 0 THEN InsertValueOn(filtered, v) ELSE filtered
    /\ lastOp' = "value"
    /\ nvals' = IF finalized THEN nvals + 1 ELSE nvals
    /\ rowIn' = IF nfin > 0 THEN Append(rowIn, v) ELSE rowIn
    /\ UNCHANGED <<nfin, namesIn, mark>>
    /\ Track(OpValue(v))
    /\ UNCHANGED ixVars

\* any call on the writer, while the calls that grow the state stay in bounds
Next ==
    /\ \/ /\ nfin < MaxFinalize
          /\ Finalize
       \/ \E name \in Names :
             /\ ~finalized => Len(fieldNames) < MaxFields
             /\ InsertNameCStr(name)
       \/ \E name \in Names :
             /\ ~finalized => Len(fieldNames) < MaxFields
             /\ InsertNameString(name)
       \/ \E v \in Values :
             /\ finalized => nvals < MaxValues
             /\ InsertValue(v)
    /\ UNCHANGED strays

Spec == Init /\ [][Next]_vars

\* the calls so far are the first calls of a usage scenario
OnScript == scen7 >= 0 \/ scen8 >= 0

\* the calls of the usage scenarios, then any call that departs from them and
\* up to MaxStray calls after it
UsageNext ==
    /\ OnScript \/ strays < MaxStray
    /\ \/ Finalize
       \/ \E name \in Names : InsertNameCStr(name)
       \/ \E name \in Names : InsertNameString(name)
       \/ \E v \in UsageValues : InsertValue(v)
    /\ strays' = IF OnScript THEN strays ELSE strays + 1

UsageSpec == Init /\ [][UsageNext]_vars

\* ------------------------------------------------------------- indexStr
\* Snprintf without the size limit (sprintf)
Snprintf_Unbounded(size, text) == text

\* snprintf(buf, size, ...): at most size-1 characters of the formatted text
\* are stored, followed by the terminator
Snprintf(size, text) == SubSeq(text, 1, Min(Len(text), size - 1))

\* strndup(s, n): a copy of at most n characters of s
Strndup(s, n) == SubSeq(s, 1, Min(Len(s), n))

\* the expansion of one "[%u]" directive
Subscript(i) == <<"[">> \o DecStr(i) \o <<"]">>

\* the expansion of "%s[%u]", "%s[%u][%u]" or "%s[%u][%u][%u]"
RECURSIVE Formatted(_, _)
Formatted(base, indices) ==
    IF indices = <<>> THEN base
    ELSE Formatted(base, SubSeq(indices, 1, Len(indices) - 1))
         \o Subscript(indices[Len(indices)])

\* TooLong with ">=" for ">"
TooLong_Geq(base, k) == Len(base) + (k * SINGLE_INDEX_LEN) >= MAX_TMP_STR

\* if (strlen(baseName) + k*SINGLE_INDEX_LEN > MAX_TMP_STR)
TooLong(base, k) == Len(base) + (k * SINGLE_INDEX_LEN) > MAX_TMP_STR

\* the body shared by the three overloads; fatal is what the overload calls
\* after ERROR
IndexStrCall(base, indices, fatal) ==
    /\ ixStatus = "called"
    /\ ixBase = base
    /\ ixIndices = indices
    /\ UNCHANGED <<ixBase, ixIndices>>
    /\ IF TooLong(base, Len(indices))
       THEN /\ errLog' = errLog + 1
            /\ ixStatus' = fatal
            /\ ixRet' = <<>>
       ELSE /\ ixRet' = Strndup(Snprintf(MAX_TMP_STR, Formatted(base, indices)),
                                MAX_TMP_STR)
            /\ ixStatus' = "returned"
            /\ UNCHANGED errLog
    /\ UNCHANGED <<writerVars, histVars, strays>>

\* static char *indexStr(const char *baseName, unsigned channel)
IndexStr1(base, channel) == IndexStrCall(base, <<channel>>, "aborted")

\* static char *indexStr(const char *baseName, unsigned channel, unsigned rank)
IndexStr2(base, channel, rank) ==
    IndexStrCall(base, <<channel, rank>>, "aborted")

\* static char *indexStr(const char *baseName, unsigned channel, unsigned rank,
\*                       unsigned bank)
IndexStr3(base, channel, rank, bank) ==
    IndexStrCall(base, <<channel, rank, bank>>, "exited")

\* the call runs the overload its number of indices selects
IndexNext ==
    \/ /\ Len(ixIndices) = 1
       /\ IndexStr1(ixBase, ixIndices[1])
    \/ /\ Len(ixIndices) = 2
       /\ IndexStr2(ixBase, ixIndices[1], ixIndices[2])
    \/ /\ Len(ixIndices) = 3
       /\ IndexStr3(ixBase, ixIndices[1], ixIndices[2], ixIndices[3])

\* a caller has picked the arguments of an indexStr call
IndexInit ==
    /\ WriterInit
    /\ ixBase \in BaseNames
    /\ ixIndices \in UNION {[1..k -> IndexValues] : k \in 1..3}
    /\ ixStatus = "called"
    /\ ixRet = <<>>
    /\ errLog = 0

IndexSpec == IndexInit /\ [][IndexNext]_vars

\* ---------------------------------------------------------------- claims
\* texts, each followed by one comma
RECURSIVE CommaTerminated(_)
CommaTerminated(texts) ==
    IF texts = <<>> THEN <<>>
    ELSE Head(texts) \o <<",">> \o CommaTerminated(Tail(texts))

\* the text of each value of a row
RowTexts(values) == [i \in 1..Len(values) |-> Render(values[i])]

\* C1: the first finalize() on a fresh writer leaves in the sink exactly the
\* names inserted so far, in insertion order, each followed by one comma, then
\* one line terminator, and leaves finalized = true.
C1_HeaderLine ==
    (nfin = 1 /\ lastOp = "finalize") =>
        /\ output = CommaTerminated(namesIn) \o <<"\n">>
        /\ finalized

C1_Witness ==
    /\ nfin = 1
    /\ lastOp = "finalize"
    /\ namesIn = <<Latency, Bandwidth>>

\* C2: a finalize() in the Emitting state leaves, as the text appended since
\* the previous finalize(), the values inserted since then in order, each
\* followed by one comma, then one line terminator, whatever their number, and
\* leaves idx = 0.
C2_DataRow ==
    [][(lastOp' = "finalize" /\ finalized) =>
          /\ mark <= Len(output)
          /\ SubSeq(output', 1, mark) = SubSeq(output, 1, mark)
          /\ SubSeq(output', mark + 1, Len(output'))
               = CommaTerminated(RowTexts(rowIn)) \o <<"\n">>
          /\ idx' = 0]_vars

\* a row of three values under a header of two names has been closed
C2_Witness ==
    /\ lastOp = "finalize"
    /\ nfin = 2
    /\ Len(fieldNames) = 2
    /\ nvals = 3
    /\ idx = 0

\* C3: a value insertion in the Collecting state changes nothing of the writer
\* and writes nothing; nothing is in the sink before the first finalize(), and
\* after it only the header line, whatever values were inserted before it.
C3_ValueBeforeHeader ==
    /\ [][(lastOp' = "value" /\ ~finalized) =>
            UNCHANGED <<output, flushed, fieldNames, finalized, idx>>]_vars
    /\ [](nfin = 0 => output = <<>>)
    /\ []((nfin = 1 /\ rowIn = <<>>) =>
            output = CommaTerminated(fieldNames) \o <<"\n">>)

\* a value has just been inserted after a name, before the first finalize()
C3_Witness ==
    /\ lastOp = "value"
    /\ ~finalized
    /\ nfin = 0
    /\ fieldNames = <<Bandwidth>>
    /\ output = <<>>
    /\ idx = 0

\* C4: a finalize() in the Emitting state prints the count-mismatch warning
\* if and only if idx differs from the number of field names.
C4_WarnIffDifferent ==
    [][(lastOp' = "finalize" /\ finalized) =>
          ((Len(stdoutLog') = Len(stdoutLog) + 1) <=> (idx # Len(fieldNames)))]_vars

\* C5: finalized changes only in finalize(), from false to true, on the first
\* finalize() and on no other call; a later finalize() writes no header, only
\* the line terminator.
C5_CommitOnce ==
    [][/\ (finalized' # finalized) =>
            (lastOp' = "finalize" /\ nfin = 0 /\ ~finalized /\ finalized')
       /\ (lastOp' = "finalize" /\ nfin = 0) => (~finalized /\ finalized')
       /\ (lastOp' = "finalize" /\ nfin >= 1) =>
            (finalized /\ output' = output \o <<"\n">>)]_vars

C5_Witness ==
    /\ nfin = 3
    /\ lastOp = "finalize"
    /\ finalized
    /\ Len(fieldNames) = 2

\* C6: once finalized, no call changes fieldNames, and a name insertion
\* changes nothing of the writer and writes nothing.
C6_NamesFrozen ==
    [][/\ finalized => fieldNames' = fieldNames
       /\ (lastOp' = "name" /\ finalized) =>
            UNCHANGED <<output, flushed, fieldNames, finalized, idx>>]_vars

C6_Witness ==
    /\ lastOp = "name"
    /\ finalized
    /\ Len(fieldNames) = 1
    /\ idx = 1

\* "Bandwidth,Latency," "1.5,15," "2.5,25," each followed by a line terminator
Expected7 ==
    Bandwidth \o <<",">> \o Latency \o <<",", "\n">>
    \o <<"1", ".", "5", ",", "1", "5", ",", "\n">>
    \o <<"2", ".", "5", ",", "2", "5", ",", "\n">>

\* C7: after names Bandwidth, Latency, finalize(), values 1.5, 15, finalize(),
\* values 2.5, 25, finalize() on a fresh writer, the sink holds the header line
\* and the two data lines, each with its trailing comma, and no warning was
\* printed.
C7_Scenario ==
    scen7 = Len(Script7) => (output = Expected7 /\ stdoutLog = <<>>)

C7_Witness == scen7 = 9 /\ nfin = 3 /\ nvals = 4

\* "Bandwidth,Latency" "1.5,15" "2.5,25" each followed by a line terminator
Expected8 ==
    Bandwidth \o <<",">> \o Latency \o <<"\n">>
    \o <<"1", ".", "5", ",", "1", "5", "\n">>
    \o <<"2", ".", "5", ",", "2", "5", "\n">>

\* C8: after the three cycles of the class comment's example the sink holds
\* the three lines the comment prints, with no comma at the end of a line.
C8_CommentOutput ==
    scen8 = Len(Script8) => output = Expected8

\* C9: an indexStr call with k indices ends the process, returning nothing, if
\* and only if length(baseName) + 4*k > 64, and otherwise returns a string.
C9_FatalIffTooLong ==
    (ixStatus \notin {"idle", "called"}) =>
        /\ (ixStatus \in {"aborted", "exited"})
              <=> (Len(ixBase) + (4 * Len(ixIndices)) > 64)
        /\ (ixStatus = "returned")
              <=> (Len(ixBase) + (4 * Len(ixIndices)) <= 64)
        /\ (ixStatus # "returned") => ixRet = <<>>

\* the longest base name that passes, with ten-digit indices
C9_Witness ==
    /\ ixStatus = "returned"
    /\ Len(ixBase) + (4 * Len(ixIndices)) = 64
    /\ Len(ixIndices) = 3
    /\ ixIndices[1] = 2147483647

\* number of decimal digits of n
RECURSIVE Digits(_)
Digits(n) == IF n < 10 THEN 1 ELSE 1 + Digits(n \div 10)

\* base[i], base[i][j] or base[i][j][k]
RECURSIVE FullName(_, _)
FullName(base, indices) ==
    IF indices = <<>> THEN base
    ELSE FullName(base \o <<"[">> \o DecStr(Head(indices)) \o <<"]">>,
                  Tail(indices))

RECURSIVE FullLen(_, _)
FullLen(base, indices) ==
    IF indices = <<>> THEN Len(base)
    ELSE 2 + Digits(Head(indices)) + FullLen(base, Tail(indices))

\* C10: whenever indexStr returns, the string is the complete text base[i],
\* base[i][j] or base[i][j][k], of length length(baseName) plus 2 plus the
\* number of digits for each index.
C10_Untruncated ==
    (ixStatus = "returned") =>
        /\ ixRet = FullName(ixBase, ixIndices)
        /\ Len(ixRet) = FullLen(ixBase, ixIndices)

\* C11: idx is the number of values inserted in the Emitting state since the
\* last finalize(); it is 0 in every Collecting state and right after every
\* finalize(), and a name insertion never changes it.
C11_Counter ==
    /\ [](idx = Len(rowIn))
    /\ [](~finalized => idx = 0)
    /\ [](lastOp = "finalize" => idx = 0)
    /\ [][lastOp' = "name" => idx' = idx]_vars

\* two values into the second data row
C11_Witness ==
    /\ nfin = 2
    /\ nvals = 3
    /\ idx = 2
    /\ lastOp = "value"

\* C12: a printed warning reports the number of field names under "fields"
\* and idx, the number of values of the row being closed, under "values".
C12_WarningNumbers ==
    [][(Len(stdoutLog') = Len(stdoutLog) + 1) =>
          /\ stdoutLog'[Len(stdoutLog')].fields = Len(fieldNames)
          /\ stdoutLog'[Len(stdoutLog')].values = idx]_vars

\* C13: after every finalize() all text of the sink is flushed, and only a
\* value insertion in the Emitting state adds text that is not flushed.
C13_Flushed ==
    /\ [](lastOp = "finalize" => flushed = Len(output))
    /\ [][(Len(output') - flushed' > Len(output) - flushed) =>
            (lastOp' = "value" /\ finalized)]_vars

\* a data row with values has been closed
C13_Witness ==
    /\ lastOp = "finalize"
    /\ nfin = 2
    /\ nvals = 2
    /\ flushed = Len(output)

\* C14: after any sequence of calls the sink and the writer (fieldNames,
\* finalized, idx) are what the same calls give without the value insertions
\* before the first finalize() and the name insertions after it.
C14_Erasable ==
    filtered = [output |-> output, fieldNames |-> fieldNames,
                finalized |-> finalized, idx |-> idx]

\* a name has just been inserted into the second data row
C14_Witness ==
    /\ lastOp = "name"
    /\ nfin = 2
    /\ nvals = 2
    /\ idx = 1
    /\ Len(fieldNames) = 1

\* number of line terminators in a text
RECURSIVE Newlines(_)
Newlines(text) ==
    IF text = <<>> THEN 0
    ELSE (IF Head(text) = "\n" THEN 1 ELSE 0) + Newlines(Tail(text))

IsPrefix(s, t) == Len(s) <= Len(t) /\ SubSeq(t, 1, Len(s)) = s

\* no name inserted before the first finalize() holds a line terminator
PlainNames == \A i \in 1..Len(namesIn) : Newlines(namesIn[i]) = 0

\* C15 as stated: the sink holds as many line terminators as there were
\* finalize() calls, every finalize() appends exactly one, no insertion appends
\* one, and every call leaves the earlier sink text as a prefix.
C15_LineCount ==
    /\ [](Newlines(output) = nfin)
    /\ [][/\ lastOp' = "finalize" => Newlines(output') = Newlines(output) + 1
          /\ lastOp' \in {"name", "value"} => Newlines(output') = Newlines(output)
          /\ IsPrefix(output, output')]_vars

\* C15, amended: the same, for calls whose field names hold no line terminator;
\* the prefix property holds for all calls.
C15_LineCountPlainNames ==
    /\ [](PlainNames => Newlines(output) = nfin)
    /\ [][/\ (lastOp' = "finalize" /\ PlainNames) =>
                Newlines(output') = Newlines(output) + 1
          /\ lastOp' \in {"name", "value"} => Newlines(output') = Newlines(output)
          /\ IsPrefix(output, output')]_vars

\* the header of two plain names and two data rows have been written
C15_Witness ==
    /\ lastOp = "finalize"
    /\ nfin = 3
    /\ PlainNames
    /\ Len(fieldNames) = 2
    /\ nvals = 3
    /\ Newlines(output) = 3

\* C16: whatever the index values, a string indexStr returns has at most
\* MAX_TMP_STR - 1 = 63 characters: a text that does not fit the buffer is
\* returned shortened to its first 63 characters.
C16_BoundedResult ==
    (ixStatus = "returned") =>
        /\ Len(ixRet) <= 63
        /\ IsPrefix(ixRet, FullName(ixBase, ixIndices))
        /\ (FullLen(ixBase, ixIndices) > 63) => Len(ixRet) = 63

\* ten-digit indices make the text longer than the buffer
C16_Witness ==
    /\ ixStatus = "returned"
    /\ Len(ixIndices) = 3
    /\ \A i \in 1..3 : ixIndices[i] = 2147483647
    /\ Len(ixBase) = 52
    /\ FullLen(ixBase, ixIndices) = 88
    /\ Len(ixRet) = 63

TypeOK ==
    /\ finalized \in BOOLEAN
    /\ idx \in Nat
    /\ Len(fieldNames) = Len(namesIn)
    /\ flushed <= Len(output)
    /\ ixStatus \in {"idle", "called", "returned", "aborted", "exited"}
    /\ Len(ixRet) < MAX_TMP_STR
====
